---- MODULE Spec2Model ----
(***************************************************************************)
(* The dating simulation of src/dating.py (DatingEnvironment, DatingAgent, *)
(* DatingSimulation) on top of the agent framework of src/agents.py.       *)
(*                                                                         *)
(* Floats are fixed-point thousandths: 1.0 is One = 1000.  Every random    *)
(* draw of the code (random.random, random.uniform, random.choice) is a    *)
(* nondeterministic choice from a small set.  One call of step() is a      *)
(* sequence of forced sub-steps, one per loop iteration of the code, with  *)
(* pc naming the loop the call is in; pc = "idle" is the tick boundary     *)
(* (no call of step() is running).  A KeyError raised inside step() ends   *)
(* the call where it is raised and leaves the object as it then is.        *)
(***************************************************************************)
EXTENDS Integers, Sequences, FiniteSets, TLC

\* ---------------------------------------------------------------- bounds
MaxAgents == 2
MaxSteps == 1

\* ------------------------------------------------------ program constants
One == 1000
ActProbability == 100
DatingActionSplit == 500
MatchThreshold == 700
InterestNorm == 5
MaxFluctuation == 100

\* random.random() in [0, 1): the sampled draws, one below and one above
\* every threshold the code compares a draw with
RandomDraws == {0, 700}
\* random.uniform(-0.1, 0.1): the sampled draws, the two extremes
RandomEvents == {0 - MaxFluctuation, MaxFluctuation}

PersonalityTrait == {"openness", "extraversion", "agreeableness"}
Interest == {"sports", "music", "travel", "food", "tech", "art", "gaming", "reading"}

OBSERVE == "observe"
SEND_MESSAGE == "send_message"
REQUEST_DATE == "request_date"
EXPRESS_INTEREST == "express_interest"

\* What DatingAgent.__init__ may draw for one agent: personality scores in
\* [0, 1) and 2 to 5 distinct interests.
Profiles ==
    { [personality |-> [t \in PersonalityTrait |-> 300],
       interests |-> {"sports", "music", "travel", "food", "tech"}],
      [personality |-> ("openness" :> 900 @@ "extraversion" :> 0 @@ "agreeableness" :> 600),
       interests |-> {"art", "gaming"}] }

\* Personalities and interest lists DatingAgent.__init__ may draw, for the
\* calls of calculate_compatibility on its own
TraitSamples == {0, 300, 900}
InterestSamples ==
    { {"sports", "music"},
      {"music", "travel", "food"},
      {"tech", "art", "gaming", "reading"},
      {"sports", "music", "travel", "food", "tech"} }
CompatibilityProfiles ==
    [personality : [PersonalityTrait -> TraitSamples], interests : InterestSamples]

VARIABLES
    agents,                     \* self.agents: the ids, in collection order
    personality,                \* agent.state["personality"], by id
    interests,                  \* agent.state["interests"], by id
    relationship_status,        \* agent.state["relationship_status"], by id
    relationship_satisfaction,  \* agent.state["relationship_satisfaction"], by id
    memory,                     \* agent.memory, by id
    current_time,               \* environment.current_time
    relationships,              \* environment.relationships: <<key, value>> in insertion order
    messages,                   \* environment.messages
    dates,                      \* environment.dates
    stats,                      \* self.stats
    pc,                         \* where the running call of step() is
    idx,                        \* index of the running loop
    actions,                    \* step(): the collected (agent, action) list
    items,                      \* _check_relationships: list(relationships.items())
    breakups,                   \* _check_relationships: the queued breakups
    raised,                     \* the last call of step() ended in a KeyError
    calls,                      \* number of calls of step() so far
    resolved,                   \* the resolution just made: <<agent, action type, target>>
    broken,                     \* agents a breakup was applied to in this tick
    updates,                    \* update_satisfaction calls in this tick's sweep, by id
    compatibility_result        \* what a caller's calculate_compatibility call returned

vars == <<agents, personality, interests, relationship_status,
          relationship_satisfaction, memory, current_time, relationships,
          messages, dates, stats, pc, idx, actions, items, breakups, raised,
          calls, resolved, broken, updates, compatibility_result>>

\* ------------------------------------------------------------- helpers
\* str(i) of DatingSimulation.__init__ for the ids the bounds allow
Str(i) == <<"0", "1", "2", "3", "4", "5", "6", "7", "8", "9">>[i + 1]

Abs(x) == IF x < 0 THEN 0 - x ELSE x
Max(a, b) == IF a > b THEN a ELSE b
Min(a, b) == IF a < b THEN a ELSE b

RECURSIVE SumOver(_, _)
SumOver(f, S) ==
    IF S = {} THEN 0
    ELSE LET x == CHOOSE y \in S : TRUE IN f[x] + SumOver(f, S \ {x})

\* A Python dict as the sequence of its <<key, value>> items in insertion order.
Keys(d) == {d[i][1] : i \in DOMAIN d}
DictGet(d, k) == d[CHOOSE i \in DOMAIN d : d[i][1] = k][2]
DictSet(d, k, v) ==
    IF k \in Keys(d)
    THEN [i \in DOMAIN d |-> IF d[i][1] = k THEN <<k, v>> ELSE d[i]]
    ELSE Append(d, <<k, v>>)
DictDel(d, k) == SelectSeq(d, LAMBDA e : e[1] # k)

NoResolution == <<>>
NoCompatibility == <<>>

\* ------------------------------------------------------------ Action
Action(type, params) == [type |-> type, params |-> params]

\* ------------------------------------------------- DatingEnvironment
get_state ==
    [time |-> current_time, relationships |-> relationships,
     messages |-> messages, dates |-> dates]

is_valid_action_always(rel, agent, action) == TRUE

is_valid_action(rel, agent, action) ==
    IF action.type = REQUEST_DATE
    THEN LET target_id == action.params.target_id
         IN  agent \notin Keys(rel) /\ target_id \notin Keys(rel)
    ELSE TRUE

update_no_advance(time) == time

update(time) == time + 1

\* ------------------------------------------------------- DatingAgent
\* The observation holds env_state["relationships"] itself, the live mapping
\* of the environment and no copy of it, so the entry kept in memory has no
\* relationships value of its own.
perceive(self) ==
    LET env_state == get_state
    IN  [time |-> env_state.time,
         messages |-> SelectSeq(env_state.messages, LAMBDA m : m.to = self)]

_try_dating_action(r) ==
    IF r < DatingActionSplit
    THEN Action(EXPRESS_INTEREST, [message |-> "Hi!"])
    ELSE Action(REQUEST_DATE, [target_id |-> "random"])

_relationship_action == Action(SEND_MESSAGE, [message |-> "How are you?"])

decide(self, r1, r2) ==
    IF r1 < ActProbability
    THEN IF relationship_status[self] = "single"
         THEN _try_dating_action(r2)
         ELSE _relationship_action
    ELSE Action(OBSERVE, <<>>)

calculate_compatibility_own_share(self, other) ==
    LET pers_diff ==
            SumOver([t \in PersonalityTrait |->
                        Abs(personality[self][t] - personality[other][t])],
                    PersonalityTrait)
        shared_interests == Cardinality(interests[self] \cap interests[other])
    IN  (One - pers_diff \div Cardinality(PersonalityTrait)) \div 2
        + ((shared_interests * One) \div Cardinality(interests[self])) \div 2

calculate_compatibility(self, other) ==
    LET pers_diff ==
            SumOver([t \in PersonalityTrait |->
                        Abs(personality[self][t] - personality[other][t])],
                    PersonalityTrait)
        shared_interests == Cardinality(interests[self] \cap interests[other])
    IN  (One - pers_diff \div Cardinality(PersonalityTrait)) \div 2
        + ((shared_interests * One) \div InterestNorm) \div 2

update_satisfaction_unclamped(old, random_event, compatibility) ==
    Max(0, old + random_event + (compatibility - One \div 2) \div 10)

update_satisfaction(old, random_event, compatibility) ==
    Max(0, Min(One, old + random_event + (compatibility - One \div 2) \div 10))

\* ------------------------------------------------- DatingSimulation
\* next(a for a in self.agents if a.id == agent_id)
FindAgent(agent_id) ==
    agents[CHOOSE i \in DOMAIN agents :
              /\ agents[i] = agent_id
              /\ \A j \in DOMAIN agents : agents[j] = agent_id => i <= j]

single_agents_with_self(agent) ==
    SelectSeq(agents, LAMBDA a : relationship_status[a] = "single")

\* [a for a in self.agents if a.id != agent.id and a.state[...] == "single"]
single_agents(agent) ==
    SelectSeq(agents, LAMBDA a : a # agent /\ relationship_status[a] = "single")

good_match_inclusive(compatibility) == compatibility >= MatchThreshold

good_match(compatibility) == compatibility > MatchThreshold

increment_as_decrement(st, key) == [st EXCEPT ![key] = @ - 1]

\* self.stats[key] += 1
increment(st, key) == [st EXCEPT ![key] = @ + 1]

express_interest_as_date(st) == increment(st, "dates_arranged")

\* self.stats["messages_sent"] += 1, once a target was chosen
express_interest(st) == increment(st, "messages_sent")

arrange_date_on_match(st, compatibility) ==
    IF good_match(compatibility) THEN increment(st, "dates_arranged") ELSE st

\* self.stats["dates_arranged"] += 1, whatever the compatibility was
arrange_date(st, compatibility) == increment(st, "dates_arranged")

_create_relationship_stats_twice(st) ==
    increment(increment(st, "relationships_formed"), "relationships_formed")

\* self.stats["relationships_formed"] += 1
_create_relationship_stats(st) == increment(st, "relationships_formed")

_create_relationship_one_way(rel, agent1, agent2) == DictSet(rel, agent1, agent2)

_create_relationship_mapping(rel, agent1, agent2) ==
    DictSet(DictSet(rel, agent1, agent2), agent2, agent1)

_create_relationship_status_first(status, agent1, agent2) ==
    [status EXCEPT ![agent1] = "in_relationship"]

_create_relationship_status(status, agent1, agent2) ==
    [[status EXCEPT ![agent1] = "in_relationship"] EXCEPT ![agent2] = "in_relationship"]

_break_relationship_status(status, agent1, agent2) ==
    [[status EXCEPT ![agent1] = "single"] EXCEPT ![agent2] = "single"]

_break_relationship_satisfaction_kept(sat, agent1, agent2) == sat

_break_relationship_satisfaction_first(sat, agent1, agent2) ==
    [sat EXCEPT ![agent1] = One]

_break_relationship_satisfaction(sat, agent1, agent2) ==
    [[sat EXCEPT ![agent1] = One] EXCEPT ![agent2] = One]

average_satisfaction(agent_satisfaction, partner_satisfaction) ==
    (agent_satisfaction + partner_satisfaction) \div 2

breakup_chance(average) == (One - average) \div 10

\* DatingSimulation(num_agents), the agents' draws taken from profiles
Construct(sizes, profiles) ==
    \E num_agents \in sizes :
        /\ agents = [i \in 1..num_agents |-> Str(i - 1)]
        /\ \E prof \in [{Str(i - 1) : i \in 1..num_agents} -> profiles] :
              /\ personality = [a \in DOMAIN prof |-> prof[a].personality]
              /\ interests = [a \in DOMAIN prof |-> prof[a].interests]
              /\ relationship_status = [a \in DOMAIN prof |-> "single"]
              /\ relationship_satisfaction = [a \in DOMAIN prof |-> One]
              /\ memory = [a \in DOMAIN prof |-> <<>>]
              /\ updates = [a \in DOMAIN prof |-> 0]
        /\ current_time = 0
        /\ relationships = <<>>
        /\ messages = <<>>
        /\ dates = <<>>
        /\ stats = [messages_sent |-> 0, dates_arranged |-> 0, relationships_formed |-> 0]
        /\ pc = "idle"
        /\ idx = 1
        /\ actions = <<>>
        /\ items = <<>>
        /\ breakups = <<>>
        /\ raised = FALSE
        /\ calls = 0
        /\ resolved = NoResolution
        /\ broken = {}
        /\ compatibility_result = NoCompatibility

Init == Construct((0 - 1)..MaxAgents, Profiles)

\* self.memory.append({"observation": observation, "action": action}).  Nothing
\* in the program reads a memory entry; the entry is kept by its observation,
\* the action in it being the one act() returns to step().
MemoryEntry(observation, action) == [observation |-> observation]

act_memory_forgotten(mem, entry) == mem

\* self.memory.append({"observation": observation, "action": action})
act_memory(mem, entry) == Append(mem, entry)

\* Where step() goes once its collection loop, its processing loop and the
\* sweep of _check_relationships are over: an empty loop is passed over.
AfterCheck(bk) == IF bk # <<>> THEN "breakups" ELSE "update"
AfterProcess(rel) == IF rel # <<>> THEN "check" ELSE "update"
AfterCollect(acts, rel) == IF acts # <<>> THEN "process" ELSE AfterProcess(rel)

\* step() is called: actions = []
StepBegin ==
    /\ pc = "idle"
    /\ calls < MaxSteps
    /\ calls' = calls + 1
    /\ raised' = FALSE
    /\ broken' = {}
    /\ updates' = [a \in DOMAIN updates |-> 0]
    /\ resolved' = NoResolution
    /\ actions' = <<>>
    /\ breakups' = <<>>
    /\ idx' = 1
    /\ pc' = IF agents # <<>> THEN "collect" ELSE AfterCollect(<<>>, relationships)
    /\ items' = IF pc' = "check" THEN relationships ELSE <<>>
    /\ UNCHANGED <<agents, personality, interests, relationship_status,
                   relationship_satisfaction, memory, current_time,
                   relationships, messages, dates, stats, compatibility_result>>

\* One iteration of the collection loop: agent.act(environment)
Collect ==
    /\ pc = "collect"
    /\ \E r1 \in RandomDraws, r2 \in RandomDraws :
          LET agent == agents[idx]
              observation == perceive(agent)
              action == decide(agent, r1, r2)
          IN  /\ memory' = [memory EXCEPT ![agent] =
                                act_memory(@, MemoryEntry(observation, action))]
              /\ actions' = IF action.type # OBSERVE
                            THEN Append(actions, <<agent, action>>)
                            ELSE actions
    /\ IF idx < Len(agents)
       THEN idx' = idx + 1 /\ pc' = "collect"
       ELSE idx' = 1 /\ pc' = AfterCollect(actions', relationships)
    /\ items' = IF pc' = "check" THEN relationships ELSE <<>>
    /\ resolved' = NoResolution
    /\ UNCHANGED <<agents, personality, interests, relationship_status,
                   relationship_satisfaction, current_time, relationships,
                   messages, dates, stats, breakups, raised, calls, broken,
                   updates, compatibility_result>>

Resolution(agent, type, result, target) ==
    [agent |-> agent, type |-> type, result |-> result, target |-> target]

\* One iteration of the processing loop of step()
ProcessAction ==
    /\ pc = "process"
    /\ LET agent == actions[idx][1]
           action == actions[idx][2]
       IN  IF ~is_valid_action(relationships, agent, action)
           THEN /\ resolved' = Resolution(agent, action.type, "rejected", "none")
                /\ UNCHANGED <<relationships, relationship_status, stats>>
           ELSE IF action.type = EXPRESS_INTEREST
           THEN LET single == single_agents(agent)
                IN  IF single = <<>>
                    THEN /\ resolved' = Resolution(agent, action.type, "no_target", "none")
                         /\ UNCHANGED <<relationships, relationship_status, stats>>
                    ELSE \E i \in DOMAIN single :
                            /\ resolved' = Resolution(agent, action.type, "resolved", single[i])
                            /\ stats' = express_interest(stats)
                            /\ UNCHANGED <<relationships, relationship_status>>
           ELSE IF action.type = REQUEST_DATE
           THEN LET single == single_agents(agent)
                IN  IF single = <<>>
                    THEN /\ resolved' = Resolution(agent, action.type, "no_target", "none")
                         /\ UNCHANGED <<relationships, relationship_status, stats>>
                    ELSE \E i \in DOMAIN single :
                            LET target == single[i]
                                compatibility == calculate_compatibility(agent, target)
                            IN  /\ resolved' = Resolution(agent, action.type, "resolved", target)
                                /\ IF good_match(compatibility)
                                   THEN /\ relationships' =
                                              _create_relationship_mapping(relationships, agent, target)
                                        /\ relationship_status' =
                                              _create_relationship_status(relationship_status, agent, target)
                                        /\ stats' = arrange_date(_create_relationship_stats(stats),
                                                                 compatibility)
                                   ELSE /\ stats' = arrange_date(stats, compatibility)
                                        /\ UNCHANGED <<relationships, relationship_status>>
           ELSE /\ resolved' = Resolution(agent, action.type, "ignored", "none")
                /\ UNCHANGED <<relationships, relationship_status, stats>>
    /\ IF idx < Len(actions)
       THEN idx' = idx + 1 /\ pc' = "process"
       ELSE idx' = 1 /\ pc' = AfterProcess(relationships')
    /\ items' = IF pc' = "check" THEN relationships' ELSE <<>>
    /\ UNCHANGED <<agents, personality, interests, relationship_satisfaction,
                   memory, current_time, messages, dates, actions, breakups,
                   raised, calls, broken, updates,
                   compatibility_result>>

\* One iteration of the sweep of _check_relationships
CheckRelationship ==
    /\ pc = "check"
    /\ LET agent == FindAgent(items[idx][1])
           partner == FindAgent(items[idx][2])
           agent_compatibility == calculate_compatibility(agent, partner)
           partner_compatibility == calculate_compatibility(partner, agent)
       IN  \E e1 \in RandomEvents, e2 \in RandomEvents, r \in RandomDraws :
              LET agent_satisfaction ==
                      update_satisfaction(relationship_satisfaction[agent], e1,
                                          agent_compatibility)
                  sat1 == [relationship_satisfaction EXCEPT ![agent] = agent_satisfaction]
                  partner_satisfaction ==
                      update_satisfaction(sat1[partner], e2, partner_compatibility)
                  sat2 == [sat1 EXCEPT ![partner] = partner_satisfaction]
                  average == average_satisfaction(agent_satisfaction, partner_satisfaction)
              IN  /\ relationship_satisfaction' = sat2
                  /\ updates' = [a \in DOMAIN updates |->
                                    updates[a] + (IF a = agent THEN 1 ELSE 0)
                                               + (IF a = partner THEN 1 ELSE 0)]
                  /\ breakups' = IF r < breakup_chance(average)
                                 THEN Append(breakups, <<agent, partner>>)
                                 ELSE breakups
    /\ IF idx < Len(items)
       THEN idx' = idx + 1 /\ pc' = "check"
       ELSE idx' = 1 /\ pc' = AfterCheck(breakups')
    /\ resolved' = NoResolution
    /\ UNCHANGED <<agents, personality, interests, relationship_status, memory,
                   current_time, relationships, messages, dates, stats, actions,
                   items, raised, calls, broken, compatibility_result>>

\* One iteration of the breakup loop: _break_relationship(agent, partner).
\* del of a key that is not in the mapping raises KeyError, which ends step().
BreakRelationship ==
    /\ pc = "breakups"
    /\ LET agent1 == breakups[idx][1]
           agent2 == breakups[idx][2]
           rel1 == DictDel(relationships, agent1)
       IN  IF agent1 \notin Keys(relationships)
           THEN /\ raised' = TRUE
                /\ UNCHANGED <<relationships, relationship_status,
                               relationship_satisfaction, broken>>
           ELSE IF agent2 \notin Keys(rel1)
           THEN /\ raised' = TRUE
                /\ relationships' = rel1
                /\ UNCHANGED <<relationship_status, relationship_satisfaction, broken>>
           ELSE /\ relationships' = DictDel(rel1, agent2)
                /\ relationship_status' =
                      _break_relationship_status(relationship_status, agent1, agent2)
                /\ relationship_satisfaction' =
                      _break_relationship_satisfaction(relationship_satisfaction,
                                                       agent1, agent2)
                /\ broken' = broken \cup {agent1, agent2}
                /\ UNCHANGED raised
    /\ IF raised'
       THEN /\ pc' = "idle" /\ idx' = 1
            /\ actions' = <<>> /\ items' = <<>> /\ breakups' = <<>>
            /\ updates' = [a \in DOMAIN updates |-> 0]
       ELSE /\ IF idx < Len(breakups)
               THEN idx' = idx + 1 /\ pc' = "breakups"
               ELSE idx' = 1 /\ pc' = "update"
            /\ UNCHANGED <<actions, items, breakups, updates>>
    /\ resolved' = NoResolution
    /\ UNCHANGED <<agents, personality, interests, memory, current_time,
                   messages, dates, stats, calls, compatibility_result>>

\* self.environment.update(self.agents), and step() returns
EnvironmentUpdate ==
    /\ pc = "update"
    /\ current_time' = update(current_time)
    /\ pc' = "idle"
    /\ idx' = 1
    /\ actions' = <<>>
    /\ items' = <<>>
    /\ breakups' = <<>>
    /\ resolved' = NoResolution
    /\ updates' = [a \in DOMAIN updates |-> 0]
    /\ UNCHANGED <<agents, personality, interests, relationship_status,
                   relationship_satisfaction, memory, relationships, messages,
                   dates, stats, raised, calls, broken, compatibility_result>>

Next ==
    \/ StepBegin
    \/ Collect
    \/ ProcessAction
    \/ CheckRelationship
    \/ BreakRelationship
    \/ EnvironmentUpdate

Spec == Init /\ [][Next]_vars

\* calculate_compatibility called on its own, as print_relationship_network
\* and any reader of the agents may: two agents built from any sampled draws
CompatibilityInit == Construct({2}, CompatibilityProfiles)

\* self.calculate_compatibility(other), the value returned to the caller
CalculateCompatibility ==
    /\ pc = "idle"
    /\ \E self \in {agents[i] : i \in DOMAIN agents},
          other \in {agents[i] : i \in DOMAIN agents} :
          compatibility_result' = [self |-> self, other |-> other,
                            value |-> calculate_compatibility(self, other)]
    /\ UNCHANGED <<agents, personality, interests, relationship_status,
                   relationship_satisfaction, memory, current_time, relationships,
                   messages, dates, stats, pc, idx, actions, items, breakups,
                   raised, calls, resolved, broken, updates>>

CompatibilitySpec == CompatibilityInit /\ [][CalculateCompatibility]_vars

\* ------------------------------------------------------------- claims
AgentIds == {agents[i] : i \in DOMAIN agents}
AfterAStep == pc = "idle" /\ calls > 0

\* C1: in every state a run of step() calls reaches, the relationship mapping
\* is symmetric (relationships[a] = b implies relationships[b] = a) and has
\* an even number of entries.
C1_SymmetricEven ==
    /\ \A i \in DOMAIN relationships :
          LET a == relationships[i][1]
              b == relationships[i][2]
          IN  b \in Keys(relationships) /\ DictGet(relationships, b) = a
    /\ Len(relationships) % 2 = 0

\* C1 witness: a step() call has returned and left a couple in the mapping.
C1_Witness == AfterAStep /\ ~raised /\ Len(relationships) >= 2

\* C2: for every agent, relationship_status is "in_relationship" exactly when
\* its id is a key of the relationship mapping, and "single" otherwise.
C2_StatusIffKey ==
    \A a \in AgentIds :
        /\ relationship_status[a] \in {"single", "in_relationship"}
        /\ relationship_status[a] = "in_relationship" <=> a \in Keys(relationships)

\* C2 witness: after a step() call one agent is in a relationship and the
\* mapping holds its id.
C2_Witness ==
    /\ AfterAStep
    /\ \E a \in AgentIds :
          relationship_status[a] = "in_relationship" /\ a \in Keys(relationships)

\* C3: step() runs to completion without raising: applying the queued
\* breakups never deletes a mapping entry that is no longer present.
C3_StepNeverRaises == ~raised

\* C4: when a breakup of a couple was applied during a tick, at the end of
\* that tick both former partners are single, have satisfaction exactly 1.0
\* and hold no key of the relationship mapping.
C4_AfterBreakup ==
    pc = "idle" =>
        \A a \in broken :
            /\ relationship_status[a] = "single"
            /\ relationship_satisfaction[a] = One
            /\ a \notin Keys(relationships)

\* C4 witness: a tick has ended in which a breakup was applied to a couple
\* whose satisfaction had dropped.
C4_Witness == pc = "idle" /\ Cardinality(broken) = 2

\* C5: when a REQUEST_DATE of a single agent A passes validation and resolves
\* to a single target B, then right after the resolution: if compatibility
\* > 0.7, relationships[A] = B, relationships[B] = A, both are in_relationship
\* and relationships_formed has grown by exactly 1; if compatibility <= 0.7,
\* the mapping, both statuses and relationships_formed are unchanged.
C5_RequestDateResolution ==
    [][ ( /\ pc = "process"
          /\ actions[idx][2].type = REQUEST_DATE
          /\ relationship_status[actions[idx][1]] = "single"
          /\ is_valid_action(relationships, actions[idx][1], actions[idx][2])
          /\ resolved'.result = "resolved" )
        => LET A == actions[idx][1]
               B == resolved'.target
           IN  /\ A # B
               /\ relationship_status[B] = "single"
               /\ IF calculate_compatibility(A, B) > MatchThreshold
                  THEN /\ A \in Keys(relationships') /\ DictGet(relationships', A) = B
                       /\ B \in Keys(relationships') /\ DictGet(relationships', B) = A
                       /\ relationship_status'[A] = "in_relationship"
                       /\ relationship_status'[B] = "in_relationship"
                       /\ stats'.relationships_formed = stats.relationships_formed + 1
                  ELSE /\ relationships' = relationships
                       /\ relationship_status'[A] = relationship_status[A]
                       /\ relationship_status'[B] = relationship_status[B]
                       /\ stats'.relationships_formed = stats.relationships_formed
      ]_vars

\* C5 witness: a REQUEST_DATE has just resolved to a target with compatibility
\* > 0.7 and the couple is in the mapping.
C5_Witness ==
    /\ resolved # NoResolution
    /\ resolved.type = REQUEST_DATE
    /\ resolved.result = "resolved"
    /\ calculate_compatibility(resolved.agent, resolved.target) > MatchThreshold
    /\ resolved.agent \in Keys(relationships)
    /\ stats.relationships_formed = 1

\* C6: a relationship is only ever created between two distinct agents that
\* both have no mapping entry at that moment; a REQUEST_DATE of an agent that
\* an earlier action of the same tick has paired is rejected by
\* is_valid_action and dropped: mapping, statuses, satisfaction and counters
\* stay as they are.
C6_OnlyFreeAgentsPair ==
    [][ /\ (relationships' # relationships /\ Len(relationships') >= Len(relationships))
           => \E A \in AgentIds, B \in AgentIds :
                 /\ A # B
                 /\ A \notin Keys(relationships)
                 /\ B \notin Keys(relationships)
                 /\ relationships' = Append(Append(relationships, <<A, B>>), <<B, A>>)
        /\ ( /\ pc = "process"
             /\ actions[idx][2].type = REQUEST_DATE
             /\ actions[idx][1] \in Keys(relationships) )
           => /\ resolved'.result = "rejected"
              /\ UNCHANGED <<relationships, relationship_status,
                             relationship_satisfaction, stats>>
      ]_vars

\* C6 witness: the REQUEST_DATE of an agent that was paired earlier in the
\* tick has just been rejected.
C6_Witness ==
    /\ resolved # NoResolution
    /\ resolved.type = REQUEST_DATE
    /\ resolved.result = "rejected"
    /\ resolved.agent \in Keys(relationships)

\* C7: messages_sent, dates_arranged and relationships_formed never decrease:
\* no step of the program lowers or resets any of them.
C7_CountersMonotone ==
    [][ /\ stats'.messages_sent >= stats.messages_sent
        /\ stats'.dates_arranged >= stats.dates_arranged
        /\ stats'.relationships_formed >= stats.relationships_formed ]_vars

\* C7 witness: all three counters have been incremented.
C7_Witness ==
    /\ stats.messages_sent > 0
    /\ stats.dates_arranged > 0
    /\ stats.relationships_formed > 0

\* C8: every call of step() advances current_time by exactly 1, so after n
\* calls current_time = n.
C8_TimeEqualsCalls == pc = "idle" => current_time = calls

\* C9: with a population of exactly 1 agent all three counters stay 0, the
\* mapping stays empty, the agent stays single and step() never raises,
\* whatever the agent decides.
C9_SingleAgentNoOp ==
    Len(agents) = 1 =>
        /\ stats = [messages_sent |-> 0, dates_arranged |-> 0, relationships_formed |-> 0]
        /\ relationships = <<>>
        /\ \A a \in AgentIds : relationship_status[a] = "single"
        /\ ~raised

\* C9 witness: the only agent of a population of 1 decided on REQUEST_DATE
\* and the action has been resolved.
C9_Witness ==
    /\ Len(agents) = 1
    /\ resolved # NoResolution
    /\ resolved.type = REQUEST_DATE

\* Sample satisfactions and compatibilities of [0, 1], fluctuations of [-0.1, 0.1]
SatisfactionSamples == {0, 50, 500, One}
CompatibilitySamples == {0, MatchThreshold, One}
FluctuationSamples == {0 - MaxFluctuation, 0, MaxFluctuation}

\* C10: relationship_satisfaction and every personality score of every agent
\* stay within [0, 1], and update_satisfaction maps a satisfaction of [0, 1]
\* into [0, 1] for every fluctuation and every partner compatibility.
C10_ScoresInUnitInterval ==
    /\ \A a \in AgentIds :
          /\ relationship_satisfaction[a] >= 0
          /\ relationship_satisfaction[a] <= One
          /\ \A t \in PersonalityTrait :
                personality[a][t] >= 0 /\ personality[a][t] <= One
    /\ \A old \in SatisfactionSamples, e \in FluctuationSamples, c \in CompatibilitySamples :
          update_satisfaction(old, e, c) \in 0..One

\* C10 witness: a partnered agent's satisfaction has been updated by the sweep
\* and lies strictly inside the interval.
C10_Witness ==
    \E a \in AgentIds :
        /\ a \in Keys(relationships)
        /\ relationship_satisfaction[a] > 0
        /\ relationship_satisfaction[a] < One

\* C11: calculate_compatibility is symmetric: whenever A.calculate_compatibility(B)
\* has returned a value, B.calculate_compatibility(A) is that same value, for
\* every personality and every interest list of the two agents.
C11_CompatibilitySymmetric ==
    compatibility_result # NoCompatibility =>
        compatibility_result.value =
            calculate_compatibility(compatibility_result.other, compatibility_result.self)

\* C11 witness: a call between two agents of different personalities and
\* interest lists of different lengths that share an interest has returned.
C11_Witness ==
    /\ compatibility_result # NoCompatibility
    /\ compatibility_result.self # compatibility_result.other
    /\ personality[compatibility_result.self] # personality[compatibility_result.other]
    /\ Cardinality(interests[compatibility_result.self])
          < Cardinality(interests[compatibility_result.other])
    /\ interests[compatibility_result.self] \cap interests[compatibility_result.other] # {}
    /\ compatibility_result.value > 0

\* C12: constructing a DatingSimulation with a non-positive population size
\* fails at construction time: no simulation without agents exists that
\* step() is called on.
C12_NonPositiveSizeRejected == calls > 0 => Len(agents) >= 1

\* The two agents of a (agent, partner) pair, whichever the direction
Couple(pair) == {pair[1], pair[2]}

\* C14: in the breakup sweep of a tick every current couple is evaluated
\* exactly once (one iteration of the sweep, with its one breakup draw, per
\* couple), and a couple is queued for breakup at most once.
C14_EachCoupleSweptOnce ==
    /\ \A i \in DOMAIN items, j \in DOMAIN items :
          i # j => Couple(items[i]) # Couple(items[j])
    /\ \A i \in DOMAIN breakups, j \in DOMAIN breakups :
          i # j => Couple(breakups[i]) # Couple(breakups[j])

\* The agents that are in a relationship at the time of the sweep
SweptAgents == {items[i][1] : i \in DOMAIN items}

\* C15: in a tick update_satisfaction is called exactly once on every agent
\* that is in a relationship at the time of the sweep and never on a single
\* agent.
C15_OneUpdatePerPartner ==
    \A a \in AgentIds :
        /\ updates[a] <= 1
        /\ a \notin SweptAgents => updates[a] = 0
        /\ (pc \in {"breakups", "update"} /\ a \in SweptAgents) => updates[a] = 1

\* The action the processing loop of step() is at, and the agent it came from
ProcessedAgent == actions[idx][1]
ProcessedAction == actions[idx][2]

\* The single agents other than a
OtherSingles(a) == {b \in AgentIds : b # a /\ relationship_status[b] = "single"}

\* C16: a REQUEST_DATE that passes validation and finds at least one other
\* single agent increments dates_arranged by exactly 1, whether or not the
\* compatibility exceeds 0.7; a REQUEST_DATE or EXPRESS_INTEREST for which no
\* other single agent exists changes no counter, no status and no mapping
\* entry.
C16_RequestDateCounts ==
    [][ pc = "process" =>
          /\ ( /\ ProcessedAction.type = REQUEST_DATE
               /\ is_valid_action(relationships, ProcessedAgent, ProcessedAction)
               /\ OtherSingles(ProcessedAgent) # {} )
             => stats'.dates_arranged = stats.dates_arranged + 1
          /\ ( /\ ProcessedAction.type \in {REQUEST_DATE, EXPRESS_INTEREST}
               /\ OtherSingles(ProcessedAgent) = {} )
             => UNCHANGED <<stats, relationship_status, relationships>> ]_vars

\* A date was arranged between two agents that are not a good match
C16_Witness ==
    /\ resolved # NoResolution
    /\ resolved.type = REQUEST_DATE
    /\ resolved.result = "resolved"
    /\ calculate_compatibility(resolved.agent, resolved.target) <= MatchThreshold
    /\ stats.dates_arranged = 1
    /\ stats.relationships_formed = 0
    /\ relationships = <<>>

\* C17: resolving an EXPRESS_INTEREST action never changes a relationship
\* status, the relationship mapping, dates_arranged or relationships_formed;
\* it increments messages_sent by exactly 1 when the action is valid and
\* another single agent exists, and leaves messages_sent alone otherwise.
C17_ExpressInterestFrame ==
    [][ (pc = "process" /\ ProcessedAction.type = EXPRESS_INTEREST) =>
          /\ UNCHANGED <<relationship_status, relationships>>
          /\ stats'.dates_arranged = stats.dates_arranged
          /\ stats'.relationships_formed = stats.relationships_formed
          /\ stats'.messages_sent =
                IF /\ is_valid_action(relationships, ProcessedAgent, ProcessedAction)
                   /\ OtherSingles(ProcessedAgent) # {}
                THEN stats.messages_sent + 1
                ELSE stats.messages_sent ]_vars

\* An EXPRESS_INTEREST found a target and was counted as a message
C17_Witness ==
    /\ resolved # NoResolution
    /\ resolved.type = EXPRESS_INTEREST
    /\ resolved.result = "resolved"
    /\ resolved.target \in AgentIds
    /\ stats.messages_sent = 1
    /\ stats.dates_arranged = 0

C19_SinglesFullySatisfied ==
    /\ [](pc = "idle" =>
            \A a \in AgentIds :
                relationship_status[a] = "single" => relationship_satisfaction[a] = One)
    /\ [][ \A a \in AgentIds :
              (a \notin Keys(relationships) /\ a \in Keys(relationships'))
                  => relationship_satisfaction'[a] = One ]_vars

\* After a breakup both former partners are single again, at a tick boundary,
\* with satisfaction back at 1.0
C19_Witness ==
    /\ AfterAStep
    /\ broken # {}
    /\ \A a \in broken :
          relationship_status[a] = "single" /\ relationship_satisfaction[a] = One

\* C20: at every tick boundary dates_arranged >= relationships_formed >= the
\* number of current couples (half the size of the relationship mapping), and
\* the number of single agents plus the size of the relationship mapping is
\* the population size.
C20_CountersAndPopulation ==
    pc = "idle" =>
        /\ stats.dates_arranged >= stats.relationships_formed
        /\ 2 * stats.relationships_formed >= Len(relationships)
        /\ Cardinality({a \in AgentIds : relationship_status[a] = "single"})
              + Len(relationships) = Len(agents)

\* A tick ended with one couple formed on one date and nobody single
C20_Witness ==
    /\ AfterAStep
    /\ stats.relationships_formed = 1
    /\ stats.dates_arranged = 1
    /\ Len(relationships) = 2
    /\ \A a \in AgentIds : relationship_status[a] # "single"

====
